---- MODULE Spec2Model ----
(***************************************************************************)
(* The terraform-import command of the onelogin CLI: cmd.tfImport and the  *)
(* older tfimport.ImportTFStateFromRemote, the scanner and filter of       *)
(* main.tf (filterExistingDefinitions), the header buffer                  *)
(* (createHCLDefinitionsBuffer), the generators of main.tf from the state  *)
(* snapshot (ConvertTFStateToHCL, convertTFStateToHCL) and the two value   *)
(* serializers convertToHCLLine.                                           *)
(*                                                                         *)
(* Text (file contents, names, resource addresses, generated HCL) is a     *)
(* sequence of one-character strings, so that formatting, scanning with    *)
(* the two regular expressions and the byte-wise overwrite of main.tf are  *)
(* computed as the code computes them.                                     *)
(***************************************************************************)
EXTENDS Integers, Sequences, FiniteSets, TLC

\* ------------------------------------------------------------------ bounds
\* longest list of definitions the remote importer returns
MaxDefs == 3
\* number of invocations of the command in one behaviour
MaxRuns == 2
\* most keys of the attribute map handed to a serializer
MaxKeys == 2

\* ------------------------------------------------------------- characters
LowerLetters == {"a","b","c","d","e","f","g","h","i","j","k","l","m",
                 "n","o","p","q","r","s","t","u","v","w","x","y","z"}
UpperLetters == {"A","B","C","D","E","F","G","H","I","J","K","L","M",
                 "N","O","P","Q","R","S","T","U","V","W","X","Y","Z"}
Letters == LowerLetters \cup UpperLetters
DigitChars == {"0","1","2","3","4","5","6","7","8","9"}
\* regexp \w and \s of Go's regexp package
WordClass == Letters \cup DigitChars \cup {"_"}
SpaceClass == {" ", "\t", "\n", "\f", "\r"}
\* [a-zA-Z\_\-] and [a-zA-Z\_] of the two search criteria
ResourceNameClass == Letters \cup {"_", "-"}
ProviderNameClass == Letters \cup {"_"}

MinOf(S) == CHOOSE m \in S : \A o \in S : m <= o

\* upper-case to lower-case, as a table over the letters
UpperSeq == <<"A","B","C","D","E","F","G","H","I","J","K","L","M",
              "N","O","P","Q","R","S","T","U","V","W","X","Y","Z">>
LowerSeq == <<"a","b","c","d","e","f","g","h","i","j","k","l","m",
              "n","o","p","q","r","s","t","u","v","w","x","y","z">>
LowerChar(c) ==
  IF c \in UpperLetters
    THEN LowerSeq[CHOOSE i \in 1..26 : UpperSeq[i] = c]
    ELSE c
\* strings.ToLower
ToLower(s) == [i \in 1..Len(s) |-> LowerChar(s[i])]

RECURSIVE FormatInt(_)
\* strconv.FormatInt(n, 10) for n >= 0
FormatInt(n) ==
  IF n < 10 THEN <<ToString(n)>>
  ELSE FormatInt(n \div 10) \o <<ToString(n % 10)>>

RECURSIVE Concat(_)
\* the concatenation of a sequence of texts
Concat(ss) == IF ss = <<>> THEN <<>> ELSE Head(ss) \o Concat(Tail(ss))

\* ------------------------------------------------------------ the scanner
\* bufio.Scanner with ScanLines: the lines of a text, without their "\n" and
\* without one trailing "\r"; a final line with no "\n" is a line too.
LineStarts(t) == {1} \cup {i + 1 : i \in {j \in 1..Len(t) : t[j] = "\n"}}
LineEnd(t, a) ==
  LET nl == {j \in a..Len(t) : t[j] = "\n"}
  IN IF nl = {} THEN Len(t) ELSE MinOf(nl) - 1
DropCR(l) == IF Len(l) > 0 /\ l[Len(l)] = "\r" THEN SubSeq(l, 1, Len(l) - 1) ELSE l
ScanLines(t) ==
  {DropCR(SubSeq(t, a, LineEnd(t, a))) : a \in {s \in LineStarts(t) : s <= Len(t)}}

\* last index of the longest run of characters of class C that starts at a
\* (a - 1 when the run is empty): a greedy C*
RunEnd(l, a, C) ==
  LET bad == {j \in a..Len(l) : l[j] \notin C}
  IN IF bad = {} THEN Len(l) ELSE MinOf(bad) - 1
IsAt(l, i, C) == i >= 1 /\ i <= Len(l) /\ l[i] \in C

\* first index of the run of \w characters that holds position p
RunStart(l, p) ==
  LET bad == {j \in 1..p : l[j] \notin WordClass}
  IN IF bad = {} THEN 1 ELSE (CHOOSE m \in bad : \A o \in bad : m >= o) + 1

\* the maximal runs <<a, b>> of \w characters of a line that contain word:
\* where \w*word\w* can match, a being the leftmost start of such a match
WordRuns(l, word) ==
  {<<RunStart(l, p), RunEnd(l, p, WordClass)>> :
     p \in {q \in 1..(Len(l) - Len(word) + 1) : SubSeq(l, q, q + Len(word) - 1) = word}}

kwResource == <<"r", "e", "s", "o", "u", "r", "c", "e">>
kwProvider == <<"p", "r", "o", "v", "i", "d", "e", "r">>

\* (\w*resource\w*)\s([a-zA-Z\_\-]*)\s([a-zA-Z\_\-]*[0-9]*)\s?\{ tried from
\* the word run r: the submatches <<type, name>>, or <<>> when it fails
ResourceMatchAt(l, r) ==
  LET t1 == r[2] + 2
      t2 == RunEnd(l, t1, ResourceNameClass)
      n1 == t2 + 2
      n2 == RunEnd(l, n1, ResourceNameClass)
      n3 == RunEnd(l, n2 + 1, DigitChars)
      b  == IF IsAt(l, n3 + 1, SpaceClass) THEN n3 + 2 ELSE n3 + 1
  IN IF /\ IsAt(l, r[2] + 1, SpaceClass)
        /\ IsAt(l, t2 + 1, SpaceClass)
        /\ IsAt(l, b, {"{"})
       THEN <<SubSeq(l, t1, t2), SubSeq(l, n1, n3)>>
       ELSE <<>>

\* (\w*provider\w*)\s(([a-zA-Z\_]*))\s\{ tried from the word run r
ProviderMatchAt(l, r) ==
  LET p1 == r[2] + 2
      p2 == RunEnd(l, p1, ProviderNameClass)
  IN IF /\ IsAt(l, r[2] + 1, SpaceClass)
        /\ IsAt(l, p2 + 1, SpaceClass)
        /\ IsAt(l, p2 + 2, {"{"})
       THEN <<SubSeq(l, p1, p2)>>
       ELSE <<>>

\* FindStringSubmatch: the leftmost match of the line, <<>> when none
FindResource(l) ==
  LET ok == {r \in WordRuns(l, kwResource) : ResourceMatchAt(l, r) # <<>>}
  IN IF ok = {} THEN <<>>
     ELSE ResourceMatchAt(l, CHOOSE r \in ok : \A o \in ok : r[1] <= o[1])
FindProvider(l) ==
  LET ok == {r \in WordRuns(l, kwProvider) : ProviderMatchAt(l, r) # <<>>}
  IN IF ok = {} THEN <<>>
     ELSE ProviderMatchAt(l, CHOOSE r \in ok : \A o \in ok : r[1] <= o[1])

\* fmt.Sprintf("%s.%s", Type, Name)
ResourceKey(type, name) == type \o <<".">> \o name

\* collection["resource"] and collection["provider"]: the keys whose count
\* is above zero (the code reads the counts only to compare them with 0)
collectionResource(text) ==
  {ResourceKey(FindResource(l)[1], FindResource(l)[2]) :
     l \in {x \in ScanLines(text) : FindResource(x) # <<>>}}
collectionProvider(text) ==
  {FindProvider(l)[1] : l \in {x \in ScanLines(text) : FindProvider(x) # <<>>}}

\* ------------------------------------------------ filter and header buffer
\* filterExistingDefinitions, first result: the definitions whose Type.Name
\* the scan of main.tf did not find, in their order
uniqueResourceDefinitions(text, resourceDefinitions) ==
  SelectSeq(resourceDefinitions,
            LAMBDA d : ResourceKey(d.Type, d.Name) \notin collectionResource(text))

\* the keys of providerMap: providerMap[resourceDefinition.Provider]++ runs
\* for every definition of the list, before the test that filters it
providerMap(resourceDefinitions) ==
  {resourceDefinitions[i].Provider : i \in 1..Len(resourceDefinitions)}

\* filterExistingDefinitions, second result, as a set: Go ranges over
\* providerMap in an unspecified order
uniqueProviders(text, resourceDefinitions) ==
  {p \in providerMap(resourceDefinitions) : p \notin collectionProvider(text)}

\* the orders in which the range over providerMap can deliver a set
Orderings(S) ==
  {q \in [1..Cardinality(S) -> S] : \A i, j \in 1..Cardinality(S) : q[i] = q[j] => i = j}

\* fmt.Sprintf("provider %s {\n\talias = \"%s\"\n}\n\n", p, p)
ProviderBlock(p) ==
  <<"p", "r", "o", "v", "i", "d", "e", "r", " ">> \o p \o <<" ", "{", "\n", "\t", "a", "l", "i", "a", "s", " ", "=", " ", "\"">> \o p \o <<"\"", "\n", "}", "\n", "\n">>
\* fmt.Sprintf("resource %s %s {}\n", Type, Name)
ResourceHeader(d) ==
  <<"r", "e", "s", "o", "u", "r", "c", "e", " ">> \o d.Type \o <<" ">> \o d.Name \o <<" ", "{", "}", "\n">>

\* createHCLDefinitionsBuffer
createHCLDefinitionsBuffer(resourceDefinitions, providerDefinitions) ==
  Concat([i \in 1..Len(providerDefinitions) |-> ProviderBlock(providerDefinitions[i])])
  \o Concat([i \in 1..Len(resourceDefinitions) |-> ResourceHeader(resourceDefinitions[i])])

\* ------------------------------------------------- the file as byte string
\* os.File.Write at offset off: the bytes under the written range are
\* replaced, the file grows when the range ends past its end, and nothing
\* is truncated
WriteAt(content, off, buf) ==
  SubSeq(content, 1, off) \o buf
  \o SubSeq(content, off + Len(buf) + 1, Len(content))

\* --------------------------------------------------------- disambiguation
\* fmt.Sprintf("_%s_%s", name, strconv.FormatInt(n, 10))
NewName(name, n) == <<"_">> \o name \o <<"_">> \o FormatInt(n)

\* the body of the inner loop without its append
InnerBodyNoAppend(acc, v, resourceDefinition) ==
  IF resourceDefinition.Name = v.Name
    THEN <<acc[1] + 1,
           ResourceKey(resourceDefinition.Type, NewName(v.Name, acc[1])),
           acc[3]>>
    ELSE acc

\* one pass of the body of the inner loop of tfImport, for the element v of
\* the snapshot: acc is <<n, resourceName, newResourceDefinitions>>
InnerBody(acc, v, resourceDefinition) ==
  IF resourceDefinition.Name = v.Name
    THEN <<acc[1] + 1,
           ResourceKey(resourceDefinition.Type, NewName(v.Name, acc[1])),
           Append(acc[3], resourceDefinition)>>
    ELSE acc

RECURSIVE InnerRange(_, _, _, _)
\* for _, v := range newResourceDefinitions: the range expression is
\* evaluated once, so the loop visits the elements 1..Len(snapshot) of the
\* slice as it was when the loop began, whatever the body appends
InnerRange(snapshot, j, acc, resourceDefinition) ==
  IF j > Len(snapshot) THEN acc
  ELSE InnerRange(snapshot, j + 1,
                  InnerBody(acc, snapshot[j], resourceDefinition),
                  resourceDefinition)

\* the body of the outer loop up to the import command: <<n, resourceName,
\* newResourceDefinitions>> for the definition at hand
Disambiguate(slice, resourceDefinition) ==
  InnerRange(slice, 1,
             <<0, ResourceKey(resourceDefinition.Type, resourceDefinition.Name), slice>>,
             resourceDefinition)

\* the address ImportTFStateFromRemote imports under: Type.Name as it is
PlainAddress(slice, resourceDefinition) ==
  <<0, ResourceKey(resourceDefinition.Type, resourceDefinition.Name), slice>>

\* --------------------------------------------------- the value serializers
\* A decoded JSON value (what json.Unmarshal puts in an interface{}) is a
\* record with a tag t: "null", "str" (v a text), "num" (v a natural number,
\* held as float64 by Go), "bool", "list" (v a sequence of values) or "map"
\* (v a sequence of <<key, value>> with distinct keys, in the order in which
\* the range over the Go map delivers them).
Null == [t |-> "null"]
Str(x) == [t |-> "str", v |-> x]
Num(x) == [t |-> "num", v |-> x]
Bool(x) == [t |-> "bool", v |-> x]
List(x) == [t |-> "list", v |-> x]
Map(x) == [t |-> "map", v |-> x]

\* indent
indent(level) == [i \in 1..level |-> "\t"]

\* utils.ToSnakeCase of the onelogin SDK: an underscore before an upper-case
\* letter that follows a lower-case letter or a digit, then lower case
ToSnakeCase(k) ==
  ToLower(Concat([i \in 1..Len(k) |->
    IF i > 1 /\ k[i] \in UpperLetters /\ k[i - 1] \in LowerLetters \cup DigitChars
      THEN <<"_", k[i]>> ELSE <<k[i]>>]))

\* %q of a string: quoted, with quote, backslash and newline escaped
Quote(x) ==
  <<"\"">> \o Concat([i \in 1..Len(x) |->
     CASE x[i] = "\"" -> <<"\\", "\"">>
       [] x[i] = "\\" -> <<"\\", "\\">>
       [] x[i] = "\n" -> <<"\\", "n">>
       [] OTHER -> <<x[i]>>]) \o <<"\"">>
BoolText(b) == IF b THEN <<"t", "r", "u", "e">> ELSE <<"f", "a", "l", "s", "e">>
\* %v of a float64 without fraction or of a bool
FormatV(v) == IF v.t = "num" THEN FormatInt(v.v) ELSE BoolText(v.v)
\* %q of a scalar element of a list
FormatQ(v) ==
  CASE v.t = "str" -> Quote(v.v)
    [] v.t = "num" -> <<"%", "!", "q", "(", "f", "l", "o", "a", "t", "6", "4", "=">> \o FormatInt(v.v) \o <<")">>
    [] v.t = "bool" -> <<"%", "!", "q", "(", "b", "o", "o", "l", "=">> \o BoolText(v.v) \o <<")">>
    [] v.t = "null" -> <<"%", "!", "q", "(", "<", "n", "i", "l", ">", ")">>
\* %0.f of a scalar element of a list
FormatF(v) ==
  CASE v.t = "num" -> FormatInt(v.v)
    [] v.t = "bool" -> <<"%", "!", "f", "(", "b", "o", "o", "l", "=">> \o BoolText(v.v) \o <<")">>
    [] v.t = "str" -> <<"%", "!", "f", "(", "s", "t", "r", "i", "n", "g", "=">> \o v.v \o <<")">>
    [] v.t = "null" -> <<"%", "!", "f", "(", "<", "n", "i", "l", ">", ")">>

RECURSIVE Join(_, _)
\* the elements separated by sep
Join(parts, sep) ==
  IF parts = <<>> THEN <<>>
  ELSE IF Len(parts) = 1 THEN parts[1]
  ELSE parts[1] \o sep \o Join(Tail(parts), sep)

\* the result of a serializer: the text appended to the builder and whether
\* the call panicked (reflect.TypeOf(nil).Kind() dereferences a nil Type)
Emit(x) == [out |-> x, abort |-> FALSE]
Panic(x) == [out |-> x, abort |-> TRUE]
Then(a, b) == IF a.abort THEN a ELSE [out |-> a.out \o b.out, abort |-> b.abort]

\* "%s%s = %q\n", "%s%s = %v\n", "%s%s = [" ... "]\n"
ScalarLine(k, text, level) ==
  indent(level) \o ToSnakeCase(k) \o <<" ", "=", " ">> \o text \o <<"\n">>
ArrayLine(k, parts, sep, level) ==
  indent(level) \o ToSnakeCase(k) \o <<" ", "=", " ", "[">> \o Join(parts, sep) \o <<"]", "\n">>
\* strings.ToLower(fmt.Sprintf("\n%s%s {\n", ...)) and "\n%s%s = {\n"
BlockOpen(k, level) ==
  ToLower(<<"\n">> \o indent(level) \o ToSnakeCase(k) \o <<" ", "{", "\n">>)
MapOpen(k, level) ==
  ToLower(<<"\n">> \o indent(level) \o ToSnakeCase(k) \o <<" ", "=", " ", "{", "\n">>)
BlockClose(level) == indent(level) \o <<"}", "\n">>

RECURSIVE stateparser_Entries(_, _, _)
RECURSIVE stateparser_Blocks(_, _, _, _)
\* stateparser.convertToHCLLine: json.Marshal then json.Unmarshal into a
\* map[string]interface{} gives the entries of a JSON object and nothing
\* for any other value
stateparser_convertToHCLLine(input, indentLevel) ==
  IF input.t = "map" THEN stateparser_Entries(input.v, 1, indentLevel) ELSE Emit(<<>>)

\* the body of its range over m for the key k and value v: `if v != nil`
\* guards the switch
stateparser_Entry(k, v, level) ==
  CASE v.t = "null" -> Emit(<<>>)
    [] v.t = "str" -> Emit(ScalarLine(k, Quote(v.v), level))
    [] v.t \in {"num", "bool"} -> Emit(ScalarLine(k, FormatV(v), level))
    [] v.t = "list" ->
         IF Len(v.v) = 0 THEN Emit(<<>>)
         ELSE CASE v.v[1].t = "null" -> Panic(<<>>)
                [] v.v[1].t \in {"list", "map"} -> stateparser_Blocks(k, v.v, 1, level)
                [] v.v[1].t \in {"num", "bool"} ->
                     Emit(ArrayLine(k, [j \in 1..Len(v.v) |-> FormatF(v.v[j])],
                                    <<",", " ">>, level))
                [] OTHER ->
                     Emit(ArrayLine(k, [j \in 1..Len(v.v) |-> FormatQ(v.v[j])],
                                    <<",", " ">>, level))
    [] v.t = "map" ->
         IF Len(v.v) = 0 THEN Emit(<<>>)
         ELSE Then(Then(Emit(MapOpen(k, level)),
                        stateparser_convertToHCLLine(v, level + 1)),
                   Emit(BlockClose(level)))

stateparser_Entries(m, i, level) ==
  IF i > Len(m) THEN Emit(<<>>)
  ELSE Then(stateparser_Entry(m[i][1], m[i][2], level),
            stateparser_Entries(m, i + 1, level))

stateparser_Blocks(k, sl, j, level) ==
  IF j > Len(sl) THEN Emit(<<>>)
  ELSE Then(Then(Then(Emit(BlockOpen(k, level)),
                      stateparser_convertToHCLLine(sl[j], level + 1)),
                 Emit(BlockClose(level))),
            stateparser_Blocks(k, sl, j + 1, level))

RECURSIVE tfimport_Entries(_, _, _)
RECURSIVE tfimport_Blocks(_, _, _, _)
\* tfimport.convertToHCLLine
tfimport_convertToHCLLine(input, indentLevel) ==
  IF input.t = "map" THEN tfimport_Entries(input.v, 1, indentLevel) ELSE Emit(<<>>)

\* the body of its range over m: no nil test, no case for a map, "," as the
\* separator and %q for every scalar element
tfimport_Entry(k, v, level) ==
  CASE v.t = "null" -> Panic(<<>>)
    [] v.t = "str" -> Emit(ScalarLine(k, Quote(v.v), level))
    [] v.t \in {"num", "bool"} -> Emit(ScalarLine(k, FormatV(v), level))
    [] v.t = "list" ->
         IF Len(v.v) = 0 THEN Emit(<<>>)
         ELSE CASE v.v[1].t = "null" -> Panic(<<>>)
                [] v.v[1].t \in {"list", "map"} -> tfimport_Blocks(k, v.v, 1, level)
                [] OTHER ->
                     Emit(ArrayLine(k, [j \in 1..Len(v.v) |-> FormatQ(v.v[j])],
                                    <<",">>, level))
    [] v.t = "map" -> Emit(<<>>)

tfimport_Entries(m, i, level) ==
  IF i > Len(m) THEN Emit(<<>>)
  ELSE Then(tfimport_Entry(m[i][1], m[i][2], level),
            tfimport_Entries(m, i + 1, level))

tfimport_Blocks(k, sl, j, level) ==
  IF j > Len(sl) THEN Emit(<<>>)
  ELSE Then(Then(Then(Emit(BlockOpen(k, level)),
                      tfimport_convertToHCLLine(sl[j], level + 1)),
                 Emit(BlockClose(level))),
            tfimport_Blocks(k, sl, j + 1, level))

\* ------------------------------------------- main.tf from the state snapshot
\* importables.GetImportable(Type).HCLShape() filled by json.Unmarshal, and
\* sculpt: both pass the attributes on to the serializer
HCLShape(type, data) == data
sculpt(type, data) == data

\* strings.Replace(s, old, "", 1)
RemoveFirst(x, old) ==
  LET at == {p \in 1..(Len(x) - Len(old) + 1) : SubSeq(x, p, p + Len(old) - 1) = old}
  IN IF at = {} THEN x
     ELSE SubSeq(x, 1, MinOf(at) - 1) \o SubSeq(x, MinOf(at) + Len(old), Len(x))

newProvider == <<"o", "n", "e", "l", "o", "g", "i", "n">>
\* the terraform block ConvertTFStateToHCL begins with
TerraformBlock ==
  <<"t", "e", "r", "r", "a", "f", "o", "r", "m", " ", "{", "\n", "\t", "r", "e", "q", "u", "i", "r", "e", "d", "_", "p", "r", "o", "v", "i", "d", "e", "r", "s", " ", "{", "\n", "\t", "\t">> \o newProvider \o <<" ", "=", " ", "{", "\n", "\t", "\t", "\t", "s", "o", "u", "r", "c", "e", " ", "=", " ", "\"">>
  \o newProvider \o <<"/">> \o newProvider \o <<"\"", "\n", "\t", "\t", "\t", "}", "\n", "\t", "\t", "}", "\n", "\t", "}", "\n", "\n">>
\* fmt.Sprintf("resource %s %s {\n", Type, Name)
ResourceOpen(resource) ==
  <<"r", "e", "s", "o", "u", "r", "c", "e", " ">> \o resource.Type \o <<" ">> \o resource.Name \o <<" ", "{", "\n">>

RECURSIVE stateparser_Instances(_, _)
\* the instances of one resource, from the j-th on
stateparser_Instances(resource, j) ==
  IF j > Len(resource.Instances) THEN Emit(<<>>)
  ELSE Then(Then(Then(Emit(ResourceOpen(resource)),
                      stateparser_convertToHCLLine(
                        HCLShape(resource.Type, resource.Instances[j]), 1)),
                 Emit(<<"}", "\n", "\n">>)),
            stateparser_Instances(resource, j + 1))

RECURSIVE stateparser_Resources(_, _)
stateparser_Resources(resources, r) ==
  IF r > Len(resources) THEN Emit(<<>>)
  ELSE Then(Then(stateparser_Instances(resources[r], 1), Emit(resources[r].Content)),
            stateparser_Resources(resources, r + 1))

\* stateparser.ConvertTFStateToHCL
ConvertTFStateToHCL(state) ==
  Then(Emit(TerraformBlock \o ProviderBlock(newProvider)),
       stateparser_Resources(state, 1))

RECURSIVE tfimport_Instances(_, _, _)
tfimport_Instances(resource, providerDefinition, j) ==
  IF j > Len(resource.Instances) THEN Emit(<<>>)
  ELSE Then(Then(Then(Emit(ResourceOpen(resource)
                           \o <<"\t", "p", "r", "o", "v", "i", "d", "e", "r", " ", "=", " ">> \o providerDefinition \o <<"\n">>),
                      tfimport_convertToHCLLine(
                        sculpt(resource.Type, resource.Instances[j]), 1)),
                 Emit(<<"}", "\n", "\n">>)),
            tfimport_Instances(resource, providerDefinition, j + 1))

RECURSIVE tfimport_Resources(_, _, _)
tfimport_Resources(resources, r, knownProviders) ==
  IF r > Len(resources) THEN Emit(<<>>)
  ELSE LET providerDefinition == RemoveFirst(resources[r].Provider, <<"p", "r", "o", "v", "i", "d", "e", "r", ".">>)
       IN Then(Then(Then(Emit(IF providerDefinition \in knownProviders
                                THEN <<>> ELSE ProviderBlock(providerDefinition)),
                         tfimport_Instances(resources[r], providerDefinition, 1)),
                    Emit(resources[r].Content)),
               tfimport_Resources(resources, r + 1,
                                  knownProviders \cup {providerDefinition}))

\* tfimport.convertTFStateToHCL
convertTFStateToHCL(state) == tfimport_Resources(state, 1, {})

\* ------------------------------------------------------ the external tools
\* `terraform import <address> <id>` that succeeds records the resource at
\* the address <Type>.<Name> in terraform.tfstate, with the attributes the
\* provider read for the id; an address already there stays as it is
AddressType(address) ==
  SubSeq(address, 1, MinOf({p \in 1..Len(address) : address[p] = "."}) - 1)
AddressName(address) ==
  SubSeq(address, MinOf({p \in 1..Len(address) : address[p] = "."}) + 1, Len(address))
Imported(address, resourceDefinition, id) ==
  [Type |-> AddressType(address),
   Name |-> AddressName(address),
   Provider |-> <<"p", "r", "o", "v", "i", "d", "e", "r", ".">> \o resourceDefinition.Provider,
   Instances |-> <<Map(<< <<<<"i", "d">>, Str(id)>> >>)>>,
   Content |-> <<>>]
TerraformImport(state, address, resourceDefinition, id) ==
  IF \E r \in 1..Len(state) :
       state[r].Type = AddressType(address) /\ state[r].Name = AddressName(address)
    THEN state
    ELSE Append(state, Imported(address, resourceDefinition, id))

\* strings.Index(arg1, "-") and arg1[pos+1:] of ImportTFStateFromRemote
IdAfterDash(arg1) ==
  LET at == {p \in 1..Len(arg1) : arg1[p] = "-"}
  IN IF at = {} THEN arg1 ELSE SubSeq(arg1, MinOf(at) + 1, Len(arg1))

\* ------------------------------------------------------- inputs of a run
\* the definitions the remote importer can return
Definitions ==
  { [Type |-> <<"a", "p", "p">>, Name |-> <<"x">>, Provider |-> <<"o", "n", "e", "l", "o", "g", "i", "n">>, ImportID |-> <<"1">>],
    [Type |-> <<"a", "p", "p">>, Name |-> <<"x">>, Provider |-> <<"o", "n", "e", "l", "o", "g", "i", "n">>, ImportID |-> <<"2">>],
    [Type |-> <<"u", "s", "r">>, Name |-> <<"x", "-", "7">>, Provider |-> <<"a", "w", "s">>, ImportID |-> <<"7">>] }
RemoteLists == UNION {[1..n -> Definitions] : n \in 0..MaxDefs}

\* what main.tf can hold before the first run: nothing (the file is created),
\* a declaration of app.x with no provider block, and a file written by
\* hand that declares the provider onelogin
HandWritten ==
  <<"#", " ", "m", "a", "n", "a", "g", "e", "d", " ", "b", "y", " ", "h", "a", "n", "d", "\n">> \o ProviderBlock(<<"o", "n", "e", "l", "o", "g", "i", "n">>)
  \o <<"#", " ", "t", "h", "e", " ", "a", "p", "p", "l", "i", "c", "a", "t", "i", "o", "n", "s", " ", "o", "f", " ", "t", "h", "e", " ", "m", "a", "i", "n", " ", "a", "c", "c", "o", "u", "n", "t", ",", " ", "i", "m", "p", "o", "r", "t", "e", "d", " ", "i", "n", " ", "M", "a", "r", "c", "h", "\n">>
  \o <<"#", " ", "t", "h", "e", " ", "u", "s", "e", "r", "s", " ", "o", "f", " ", "t", "h", "e", " ", "m", "a", "i", "n", " ", "a", "c", "c", "o", "u", "n", "t", " ", "f", "o", "l", "l", "o", "w", ",", " ", "d", "o", " ", "n", "o", "t", " ", "r", "e", "o", "r", "d", "e", "r", "\n">>
  \o <<"v", "a", "r", "i", "a", "b", "l", "e", " ", "r", "e", "g", "i", "o", "n", " ", "{", "\n", "\t", "d", "e", "f", "a", "u", "l", "t", " ", "=", " ", "\"", "u", "s", "\"", "\n", "}", "\n">>
InitialFiles == { <<>>, <<"r", "e", "s", "o", "u", "r", "c", "e", " ", "a", "p", "p", " ", "x", " ", "{", "}", "\n">>, HandWritten }

\* what the operator can type at the prompt
Answers == { <<"y">>, <<"Y">>, <<"y", "e", "s">>, <<"Y", "E", "S">>, <<"y", "E", "s">>, <<"n">>, <<"n", "o">>, <<>>, <<"y", "y">>, <<"y", "e", "s", " ">> }

\* the answers that say yes, in any case of the letters
YesAnswers ==
  { <<"y">>, <<"Y">>, <<"y", "e", "s">>, <<"y", "e", "S">>, <<"y", "E", "s">>, <<"y", "E", "S">>, <<"Y", "e", "s">>, <<"Y", "e", "S">>, <<"Y", "E", "s">>, <<"Y", "E", "S">> }

\* a test that aborts on "n" alone
ConfirmedUnlessN(input) == ToLower(input) # <<"n">>

\* text != "y" && text != "yes", on the lower-cased input: FALSE aborts
Confirmed(input) == ToLower(input) = <<"y">> \/ ToLower(input) = <<"y", "e", "s">>

\* --------------------------------------------------------------- the state
VARIABLES
  entry,                   \* "tfImport" or "ImportTFStateFromRemote"
  autoApprove,             \* the --auto_approve flag
  remote,                  \* what ImportFromRemote returns, the same in every run
  run,                     \* the number of the run
  pc,                      \* where the run is
  file,                    \* the bytes of main.tf
  offset,                  \* the offset of the open handle
  handle,                  \* "none", "open" or "closed"
  tfstate,                 \* the resources of terraform.tfstate
  newResourceDefinitions,  \* the slice of that name
  newProviderDefinitions,
  rangeLen,                \* the length the outer range was evaluated with
  i,                       \* the index of the outer range, from 1
  state,                   \* the decoded snapshot
  exitCode,                \* -1 while the process runs
  imports,                 \* the import commands of this run
  answered,                \* "none", "yes" or "no": what the operator typed
  wrote,                   \* a Write on main.tf succeeded in this run
  initRan,                 \* terraform init was run in this run
  stateRead,               \* terraform.tfstate was read in this run
  finalWrite,              \* "none", "ok" or "failed": the final overwrite
  generated,               \* the text the final overwrite wrote
  result,                  \* <<run, batch, finalWrite>> of the finished runs
  batch                    \* the filter's first result in this run

vars == <<entry, autoApprove, remote, run, pc, file, offset, handle, tfstate,
          newResourceDefinitions, newProviderDefinitions, rangeLen, i, state,
          exitCode, imports, answered, wrote, initRan, stateRead, finalWrite,
          generated, result, batch>>
config == <<entry, autoApprove, remote>>
history == <<answered, wrote, initRan, stateRead, finalWrite, generated>>

\* the values of a run that has not begun
Fresh ==
  /\ pc = "start"
  /\ offset = 0
  /\ handle = "none"
  /\ newResourceDefinitions = <<>>
  /\ newProviderDefinitions = <<>>
  /\ rangeLen = 0
  /\ i = 0
  /\ state = <<>>
  /\ exitCode = -1
  /\ imports = <<>>
  /\ answered = "none"
  /\ wrote = FALSE
  /\ initRan = FALSE
  /\ stateRead = FALSE
  /\ finalWrite = "none"
  /\ generated = <<>>
  /\ batch = <<>>

\* the same values for the run that begins
FreshNext ==
  /\ pc' = "start"
  /\ offset' = 0
  /\ handle' = "none"
  /\ newResourceDefinitions' = <<>>
  /\ newProviderDefinitions' = <<>>
  /\ rangeLen' = 0
  /\ i' = 0
  /\ state' = <<>>
  /\ exitCode' = -1
  /\ imports' = <<>>
  /\ answered' = "none"
  /\ wrote' = FALSE
  /\ initRan' = FALSE
  /\ stateRead' = FALSE
  /\ finalWrite' = "none"
  /\ generated' = <<>>
  /\ batch' = <<>>

Init ==
  /\ entry \in {"tfImport", "ImportTFStateFromRemote"}
  /\ autoApprove \in BOOLEAN
  /\ entry = "ImportTFStateFromRemote" => autoApprove = FALSE
  /\ remote \in RemoteLists
  /\ run = 1
  /\ file \in InitialFiles
  /\ tfstate = <<>>
  /\ result = <<>>
  /\ Fresh

\* planFile.Close() and the end of the process with the given code
Exit(code, close) ==
  /\ pc' = "exited"
  /\ exitCode' = code
  /\ handle' = IF close THEN "closed" ELSE handle

\* os.OpenFile("main.tf", O_RDWR|O_CREATE, 0600), log.Fatalln when it fails
OpenFile ==
  /\ pc = "start"
  /\ \/ /\ handle' = "open"
        /\ offset' = 0
        /\ pc' = "filter"
        /\ UNCHANGED exitCode
     \/ /\ Exit(1, FALSE)
        /\ UNCHANGED offset
  /\ UNCHANGED <<config, run, file, tfstate, newResourceDefinitions,
                 newProviderDefinitions, rangeLen, i, state, imports, history,
                 result, batch>>

\* ImportFromRemote, FilterExistingDefinitions and the test of an empty
\* result; the scanner has read the file to its end
Filter ==
  /\ pc = "filter"
  /\ newResourceDefinitions' = uniqueResourceDefinitions(file, remote)
  /\ batch' = newResourceDefinitions'
  /\ newProviderDefinitions' \in Orderings(uniqueProviders(file, remote))
  /\ offset' = Len(file)
  /\ IF Len(newResourceDefinitions') = 0
       THEN Exit(0, TRUE)
       ELSE pc' = "confirm" /\ UNCHANGED <<exitCode, handle>>
  /\ UNCHANGED <<config, run, file, tfstate, rangeLen, i, state, imports,
                 history, result>>

\* whether the run asks the operator: ImportTFStateFromRemote always does
Prompts == entry = "ImportTFStateFromRemote" \/ autoApprove = FALSE

\* the (y/n) prompt
Confirm ==
  /\ pc = "confirm"
  /\ IF Prompts
       THEN \E input \in Answers :
              /\ answered' = IF input \in YesAnswers THEN "yes" ELSE "no"
              /\ IF Confirmed(input)
                   THEN pc' = "headers" /\ UNCHANGED <<exitCode, handle>>
                   ELSE Exit(0, TRUE)
       ELSE pc' = "headers" /\ UNCHANGED <<exitCode, handle, answered>>
  /\ UNCHANGED <<config, run, file, offset, tfstate, newResourceDefinitions,
                 newProviderDefinitions, rangeLen, i, state, imports, wrote,
                 initRan, stateRead, finalWrite, generated, result, batch>>

\* whether the run closes main.tf when the write of the headers fails:
\* tfImport does, ImportTFStateFromRemote calls log.Fatal at once
ClosesOnHeaderFailure == entry = "tfImport"

\* WriteHCLDefinitionHeaders: the buffer of createHCLDefinitionsBuffer is
\* written at the offset of the handle, the end of the file
WriteHeaders ==
  /\ pc = "headers"
  /\ \/ /\ file' = WriteAt(file, offset,
                           createHCLDefinitionsBuffer(newResourceDefinitions,
                                                      newProviderDefinitions))
        /\ offset' = offset + Len(createHCLDefinitionsBuffer(newResourceDefinitions,
                                                             newProviderDefinitions))
        /\ wrote' = TRUE
        /\ pc' = "init"
        /\ UNCHANGED <<exitCode, handle>>
     \/ /\ Exit(1, ClosesOnHeaderFailure)
        /\ UNCHANGED <<file, offset, wrote>>
  /\ UNCHANGED <<config, run, tfstate, newResourceDefinitions,
                 newProviderDefinitions, rangeLen, i, state, imports, answered,
                 initRan, stateRead, finalWrite, generated, result, batch>>

\* exec.Command("terraform", "init").Run(); the outer range is evaluated
\* when the loop begins
TerraformInit ==
  /\ pc = "init"
  /\ initRan' = TRUE
  /\ \/ /\ pc' = "import"
        /\ rangeLen' = Len(newResourceDefinitions)
        /\ i' = 1
        /\ UNCHANGED <<exitCode, handle>>
     \/ /\ Exit(1, TRUE)
        /\ UNCHANGED <<rangeLen, i>>
  /\ UNCHANGED <<config, run, file, offset, tfstate, newResourceDefinitions,
                 newProviderDefinitions, state, imports, answered, wrote,
                 stateRead, finalWrite, generated, result, batch>>

\* the address and the slice after the inner loop, for the entry point
AddressOf(slice, resourceDefinition) ==
  IF entry = "tfImport"
    THEN Disambiguate(slice, resourceDefinition)
    ELSE PlainAddress(slice, resourceDefinition)
\* the id handed to terraform import
IdOf(address, resourceDefinition) ==
  IF entry = "tfImport" THEN resourceDefinition.ImportID ELSE IdAfterDash(address)

\* a line of the text opens the block of the resource at the address
Declares(text, address) ==
  LET header == <<"r", "e", "s", "o", "u", "r", "c", "e", " ">> \o AddressType(address) \o <<" ">>
                \o AddressName(address) \o <<" ", "{">>
  IN \E l \in ScanLines(text) :
       Len(l) >= Len(header) /\ SubSeq(l, 1, Len(header)) = header

\* a failed import that is logged and passed over
AfterFailedImportContinue == "import"

\* where the run goes when terraform import fails: log.Fatal
AfterFailedImport == "exited"
\* the outer range evaluated anew before every pass
LoopContinuesLive(k, len0, slice) == k <= Len(slice)

\* whether the outer range has a k-th pass: it was evaluated once, with
\* len0 elements, and the elements the body appends to slice are not visited
LoopContinues(k, len0, slice) == k <= len0

\* one pass of the outer loop: the inner loop, then terraform import
Import ==
  /\ pc = "import"
  /\ LoopContinues(i, rangeLen, newResourceDefinitions)
  /\ LET resourceDefinition == newResourceDefinitions[i]
         r == AddressOf(newResourceDefinitions, resourceDefinition)
         id == IdOf(r[2], resourceDefinition)
     IN /\ newResourceDefinitions' = r[3]
        /\ \E ok \in BOOLEAN :
             /\ imports' = Append(imports, [address |-> r[2], id |-> id, ok |-> ok,
                                            declared |-> Declares(file, r[2])])
             /\ IF ok
                  THEN /\ tfstate' = TerraformImport(tfstate, r[2], resourceDefinition, id)
                       /\ i' = i + 1
                       /\ pc' = IF LoopContinues(i + 1, rangeLen, r[3])
                                  THEN "import" ELSE "state"
                       /\ UNCHANGED exitCode
                  ELSE /\ pc' = AfterFailedImport
                       /\ exitCode' = IF AfterFailedImport = "exited" THEN 1 ELSE exitCode
                       /\ i' = IF AfterFailedImport = "exited" THEN i ELSE i + 1
                       /\ UNCHANGED tfstate
  /\ UNCHANGED <<config, run, file, offset, handle, newProviderDefinitions,
                 rangeLen, state, history, result, batch>>

\* ioutil.ReadFile("terraform.tfstate") and json.Unmarshal; either can fail
CollectState ==
  /\ pc = "state"
  /\ stateRead' = TRUE
  /\ \/ /\ state' = tfstate
        /\ pc' = "write"
        /\ UNCHANGED <<exitCode, handle>>
     \/ /\ Exit(1, TRUE)
        /\ UNCHANGED state
  /\ UNCHANGED <<config, run, file, offset, tfstate, newResourceDefinitions,
                 newProviderDefinitions, rangeLen, i, imports, answered, wrote,
                 initRan, finalWrite, generated, result, batch>>

\* the text of main.tf for the entry point
Buffer ==
  IF entry = "tfImport" THEN ConvertTFStateToHCL(state) ELSE convertTFStateToHCL(state)

\* planFile.Seek(0, 0), planFile.Write(buffer), planFile.Close(): the run
\* prints a failed write and returns; a panic of the serializer ends the
\* process with code 2 and closes nothing
Overwrite ==
  /\ pc = "write"
  /\ IF Buffer.abort
       THEN /\ Exit(2, FALSE)
            /\ UNCHANGED <<file, offset, finalWrite, generated, wrote>>
       ELSE \/ /\ file' = WriteAt(file, 0, Buffer.out)
               /\ offset' = Len(Buffer.out)
               /\ generated' = Buffer.out
               /\ finalWrite' = "ok"
               /\ wrote' = TRUE
               /\ Exit(0, TRUE)
            \/ /\ finalWrite' = "failed"
               /\ offset' = 0
               /\ Exit(0, TRUE)
               /\ UNCHANGED <<file, generated, wrote>>
  /\ UNCHANGED <<config, run, tfstate, newResourceDefinitions,
                 newProviderDefinitions, rangeLen, i, state, imports, answered,
                 initRan, stateRead, result>>
  /\ UNCHANGED batch

\* the operator runs the command again: main.tf and terraform.tfstate are
\* what the run before left
NewRun ==
  /\ pc = "exited"
  /\ run < MaxRuns
  /\ run' = run + 1
  /\ result' = Append(result, [batch |-> batch, finalWrite |-> finalWrite,
                               imports |-> imports, exitCode |-> exitCode])
  /\ FreshNext
  /\ UNCHANGED <<config, file, tfstate>>

Next ==
  \/ OpenFile
  \/ Filter
  \/ Confirm
  \/ WriteHeaders
  \/ TerraformInit
  \/ Import
  \/ CollectState
  \/ Overwrite
  \/ NewRun

Spec == Init /\ [][Next]_vars

\* -------------------------------------------------- the serializers alone
\* The attribute maps handed to the serializers: up to MaxKeys of the keys
\* below, in every order in which the range over the Go map can deliver
\* them, each with a leaf value or with a map or a list of one map that
\* holds a leaf under a key of its own ("ca" under "a").
TopKeys == << <<"a">>, <<"b">>, <<"d">> >>
Scalars == {Str(<<"s">>), Num(1), Bool(TRUE)}
EmptyValues == {Null, List(<<>>), Map(<<>>)}
Leaves ==
  Scalars \cup EmptyValues
  \cup {List(<<Str(<<"s">>), Str(<<"t">>)>>), List(<<Num(1), Num(2)>>), List(<<Null>>)}
Nested(k) ==
  {Map(<< <<<<"c">> \o k, v>> >>) : v \in Leaves}
  \cup {List(<< Map(<< <<<<"c">> \o k, v>> >>) >>) : v \in Leaves}
Values(k) == Leaves \cup Nested(k)
KeyOrders ==
  UNION {{q \in [1..n -> {TopKeys[j] : j \in 1..MaxKeys}] :
            \A x, y \in 1..n : q[x] = q[y] => x = y} : n \in 1..MaxKeys}
AttributeMaps ==
  UNION {{Map([j \in 1..Len(q) |-> <<q[j], vs[j]>>]) :
            vs \in {f \in [1..Len(q) -> UNION {Values(q[j]) : j \in 1..Len(q)}] :
                      \A j \in 1..Len(q) : f[j] \in Values(q[j])}} :
           q \in KeyOrders}

\* The state in which a run writes main.tf after it imported one definition
\* into an empty main.tf, for every attribute map the snapshot can hold.
SerializerInit ==
  /\ entry \in {"tfImport", "ImportTFStateFromRemote"}
  /\ autoApprove = FALSE
  /\ remote \in {<<d>> : d \in {x \in Definitions : x.ImportID = <<"1">>}}
  /\ run = 1
  /\ batch = remote
  /\ newResourceDefinitions = AddressOf(remote, remote[1])[3]
  /\ newProviderDefinitions = <<remote[1].Provider>>
  /\ file = createHCLDefinitionsBuffer(remote, newProviderDefinitions)
  /\ offset = Len(file)
  /\ handle = "open"
  /\ \E data \in AttributeMaps :
       tfstate = << [Imported(AddressOf(remote, remote[1])[2], remote[1],
                              IdOf(AddressOf(remote, remote[1])[2], remote[1]))
                       EXCEPT !.Instances = <<data>>] >>
  /\ state = tfstate
  /\ pc = "write"
  /\ rangeLen = 1
  /\ i = 2
  /\ exitCode = -1
  /\ imports = << [address |-> AddressOf(remote, remote[1])[2],
                   id |-> IdOf(AddressOf(remote, remote[1])[2], remote[1]),
                   ok |-> TRUE,
                   declared |-> Declares(file, AddressOf(remote, remote[1])[2])] >>
  /\ answered = "yes"
  /\ wrote = TRUE
  /\ initRan = TRUE
  /\ stateRead = TRUE
  /\ finalWrite = "none"
  /\ generated = <<>>
  /\ result = <<>>

SerializerSpec == SerializerInit /\ [][Overwrite]_vars

\* ================================================================ claims
Range(q) == {q[k] : k \in 1..Len(q)}
RECURSIVE Pow2(_)
Pow2(n) == IF n = 0 THEN 1 ELSE 2 * Pow2(n - 1)

\* C1: when a run has completed (every import succeeded and main.tf was
\* rewritten from the snapshot), the next run against the same remote
\* definitions finds no new resource and issues no import.
C1_SecondRunImportsNothing ==
  (run >= 2 /\ result[run - 1].finalWrite = "ok" /\ pc \notin {"start", "filter"})
    => (batch = <<>> /\ imports = <<>>)

\* C2: the addresses Type.Name that tfImport hands to terraform import in
\* one run are pairwise distinct.
C2_AddressesDistinct ==
  entry = "tfImport" =>
    \A a, b \in 1..Len(imports) :
      a # b => imports[a].address # imports[b].address
\* two definitions of the same Type and Name have both been imported
C2_Witness ==
  /\ entry = "tfImport"
  /\ \E a, b \in 1..Len(imports) :
       /\ a < b
       /\ b <= Len(batch)
       /\ batch[a].Type = batch[b].Type
       /\ batch[a].Name = batch[b].Name
       /\ imports[b].ok

\* the number of definitions of the batch with the Name of the k-th, and the
\* number of those before the k-th
SameName(defs, k) == Cardinality({j \in 1..Len(defs) : defs[j].Name = defs[k].Name})
SameNameBefore(defs, k) == Cardinality({j \in 1..(k - 1) : defs[j].Name = defs[k].Name})
\* the address of the k-th definition as a function of the batch alone
ExpectedAddress(defs, k) ==
  ResourceKey(defs[k].Type,
              <<"_">> \o defs[k].Name \o <<"_">>
              \o FormatInt(SameName(defs, k) * Pow2(SameNameBefore(defs, k)) - 1))
\* C3: the loop of tfImport ends for every batch: each pass uses up one
\* definition of the batch as it was when the loop began, so there are at
\* most as many passes as definitions, whatever the body appends; a loop
\* that ran to its end has issued one import per definition, in the order
\* of the batch, under an address that the batch alone determines.
C3_LoopOnePerDefinition ==
  entry = "tfImport" =>
    /\ Len(imports) <= Len(batch)
    /\ \A k \in 1..Len(imports) :
         /\ imports[k].id = batch[k].ImportID
         /\ imports[k].address = ExpectedAddress(batch, k)
    /\ pc = "import" => (i <= Len(batch) /\ Len(imports) = i - 1)
    /\ (pc \in {"state", "write"} \/ finalWrite # "none") =>
         (Len(imports) = Len(batch) /\ \A k \in 1..Len(imports) : imports[k].ok)
\* the loop has ended after a batch with two definitions of one Name
C3_Witness ==
  /\ entry = "tfImport"
  /\ pc = "state"
  /\ Len(batch) >= 2
  /\ \E a, b \in 1..Len(batch) : a # b /\ batch[a].Name = batch[b].Name

\* C4: a run of tfImport that ends after main.tf was opened has closed it.
C4_ClosedAtExit ==
  (entry = "tfImport" /\ pc = "exited" /\ handle # "none") => handle = "closed"

\* C5: an answer other than y or yes ends the run with code 0 and without a
\* write to main.tf, terraform init or an import; and none of these happens
\* unless the operator said yes or --auto_approve was given.
C5_ConfirmationGate ==
  /\ (Prompts /\ answered = "no") =>
       /\ pc = "exited"
       /\ exitCode = 0
       /\ ~wrote /\ ~initRan /\ imports = <<>>
  /\ (wrote \/ initRan \/ imports # <<>>) =>
       (answered = "yes" \/ (entry = "tfImport" /\ autoApprove))
\* the operator declined and the run is over
C5_Witness == Prompts /\ answered = "no" /\ pc = "exited" /\ batch # <<>>

\* C6: after a failed import the run is over with a non-zero code, it has
\* issued no further import, has not read the snapshot and has not
\* overwritten main.tf; what was imported before stays in the state.
C6_FailedImportIsFatal ==
  /\ \A k \in 1..(Len(imports) - 1) : imports[k].ok
  /\ (imports # <<>> /\ ~imports[Len(imports)].ok) =>
       /\ pc = "exited"
       /\ exitCode > 0
       /\ ~stateRead
       /\ finalWrite = "none"
       /\ \A k \in 1..(Len(imports) - 1) :
            \E r \in 1..Len(tfstate) :
              ResourceKey(tfstate[r].Type, tfstate[r].Name) = imports[k].address
\* an import failed after another had succeeded
C6_Witness == Len(imports) >= 2 /\ ~imports[Len(imports)].ok

\* C7: the providers the filter returns are the providers of the surviving
\* definitions that main.tf does not declare, each once.
C7_ProvidersOfSurvivors ==
  (pc \notin {"start", "filter"} /\ ~wrote) =>
    /\ Range(newProviderDefinitions) =
         {p \in {batch[j].Provider : j \in 1..Len(batch)} : p \notin collectionProvider(file)}
    /\ Cardinality(Range(newProviderDefinitions)) = Len(newProviderDefinitions)

\* C8: after a run that completed, main.tf holds the text generated from the
\* snapshot and nothing else.
C8_FileIsGenerated == finalWrite = "ok" => file = generated

\* C10: every address handed to terraform import is the address of a
\* resource header that main.tf holds at that time.
C10_ImportedIsDeclared == \A k \in 1..Len(imports) : imports[k].declared

\* the maps of a value, at every depth
RECURSIVE MapsIn(_)
MapsIn(v) ==
  CASE v.t = "map" -> {v} \cup UNION {MapsIn(v.v[j][2]) : j \in 1..Len(v.v)}
    [] v.t = "list" -> UNION {MapsIn(v.v[j]) : j \in 1..Len(v.v)}
    [] OTHER -> {}
\* a line without its leading tabs
Unindented(l) ==
  LET rest == {j \in 1..Len(l) : l[j] # "\t"}
  IN IF rest = {} THEN <<>> ELSE SubSeq(l, MinOf(rest), Len(l))
\* a line of the text assigns to the key k or opens a block of that name
HasLineFor(text, k) ==
  \E l \in ScanLines(text) :
    LET u == Unindented(l)
        name == ToSnakeCase(k) \o <<" ">>
    IN Len(u) > Len(name) /\ SubSeq(u, 1, Len(name)) = name /\ u[Len(name) + 1] \in {"=", "{"}

\* the lists of a value, at every depth
RECURSIVE ListsIn(_)
ListsIn(v) ==
  CASE v.t = "list" -> {v} \cup UNION {ListsIn(v.v[j]) : j \in 1..Len(v.v)}
    [] v.t = "map" -> UNION {ListsIn(v.v[j][2]) : j \in 1..Len(v.v)}
    [] OTHER -> {}
\* null occurs in the value only as the value of a key, not as an element
NullOnlyUnderKeys(v) == \A l \in ListsIn(v) : \A j \in 1..Len(l.v) : l.v[j] # Null

\* C9: a key whose value is null, an empty list or an empty map, at any
\* depth of the attributes, gives no line of output; the serializer does
\* not abort, and the scalar keys beside it are written. (Stated for the
\* attribute maps in which null is the value of a key only.)
C9_EmptyValuesElided ==
  (pc = "exited" /\ NullOnlyUnderKeys(state[1].Instances[1])) =>
    \A m \in MapsIn(state[1].Instances[1]) :
      \A e \in 1..Len(m.v) :
        m.v[e][2] \in EmptyValues =>
          /\ exitCode # 2
          /\ finalWrite = "ok" =>
               /\ ~HasLineFor(generated, m.v[e][1])
               /\ \A o \in 1..Len(m.v) :
                    m.v[o][2] \in Scalars => HasLineFor(generated, m.v[o][1])

\* the run before this one ended in a failed terraform import
AbortedOnImport(r) ==
  /\ r.exitCode = 1
  /\ Len(r.imports) >= 1
  /\ ~r.imports[Len(r.imports)].ok

\* C11: when a run of tfImport aborted because the import of the k-th
\* definition of its batch failed, the batch of the rerun contains the k-th
\* and every later definition of that batch, and a definition of the remote
\* source that the rerun skips was imported by the aborted run or was in
\* main.tf before it (it was not in that run's batch).
C11_RerunRetriesFailed ==
  (entry = "tfImport" /\ run >= 2 /\ pc \notin {"start", "filter"}
     /\ AbortedOnImport(result[run - 1])) =>
    LET before == result[run - 1]
        k == Len(before.imports)
    IN /\ \A j \in k..Len(before.batch) : before.batch[j] \in Range(batch)
       /\ \A d \in Range(remote) \ Range(batch) :
            \/ d \notin Range(before.batch)
            \/ \E j \in 1..(k - 1) : before.batch[j] = d
====
